---- MODULE Spec2Model ----
(***************************************************************************)
(* Payment transaction state machine of the STK-push loan repayment        *)
(* backend (MongoDB/mongoose controllers):                                 *)
(*   paymentController   initiateSTKPush, processPin, cancelTransaction    *)
(*   customerController  updateCustomer, deleteCustomer                    *)
(* The store is modelled with MongoDB's semantics: a handler that opens a  *)
(* session reads from the snapshot taken at its first read, its saves are  *)
(* staged and become visible at commitTransaction, and a staged write to a *)
(* document that was written after the snapshot (or is staged by another   *)
(* open session) throws WriteConflict.  A handler without a session reads  *)
(* and writes committed data; document.save() sends $set of the modified   *)
(* paths only.  Every await is an interleaving point.  The requests in     *)
(* flight form a bag; a handler's HTTP response is an output that is       *)
(* delivered before the event loop runs the next continuation.             *)
(* Time is abstracted: every new Date() is the token Date, so updatedAt is *)
(* written by each save but carries no behaviour; a generated receipt is   *)
(* the token Receipt.                                                      *)
(***************************************************************************)
EXTENDS Integers, Sequences, FiniteSets, Bags, TLC

\* ------------------------------------------------------------------ bounds
NumCustomers == 1      \* customers in the store
MaxTx == 2             \* distinct transaction codes generateTransactionId can return
NumReq == 2            \* HTTP requests in flight at once
MaxBalance == 2        \* largest initial loanBalance / arrears
NumReqAdmin == 1       \* requests in flight at once next to the customer editor
MaxTxAdmin == 1        \* transactions created next to the customer editor
MaxPhoneLen == 5       \* longest phone string given to formatPhoneNumber
MaxFormatCalls == 2    \* applications of formatPhoneNumber to one string

\* ------------------------------------------------------- program constants
MaxPinAttempts == 3    \* attempts ceiling of processPin
PinMinLen == 4         \* /^\d{4,6}$/
PinMaxLen == 6
MinAmount == 1         \* TransactionSchema.amount min

CustIds == 1..NumCustomers
TxCodes == 1..MaxTx
Digits == {"0", "1", "2", "3", "4", "5", "6", "7", "8", "9"}
DigitOf == <<"1", "2", "3", "4", "5", "6", "7", "8", "9">>

NoTx == [status |-> "NONE"]
NoResponse == [op |-> "none"]
Null == "null"
Date == "date"
NoReceipt == ""
Receipt == "MC"
NoError == ""
\* request-body amounts: absent, not a number, or a number
Missing == [kind |-> "missing"]
NotANumber == [kind |-> "NaN"]
Number(n) == [kind |-> "number", value |-> n]
\* a number strictly between 0 and 1, such as 0.5
Fraction == [kind |-> "fraction"]

\* ------------------------------------------------------------ pure helpers
StartsWith(s, p) == Len(s) >= Len(p) /\ SubSeq(s, 1, Len(p)) = p

\* a formatter that puts the country code in front of a leading 0
formatPhoneNumberKeepZero(phone) ==
  IF StartsWith(phone, <<"0">>) THEN <<"2", "5", "4">> \o phone
  ELSE IF StartsWith(phone, <<"2", "5", "4">>) THEN phone
  ELSE IF StartsWith(phone, <<"+", "2", "5", "4">>) THEN SubSeq(phone, 2, Len(phone))
  ELSE <<"2", "5", "4">> \o phone

formatPhoneNumber(phone) ==
  IF StartsWith(phone, <<"0">>) THEN <<"2", "5", "4">> \o SubSeq(phone, 2, Len(phone))
  ELSE IF StartsWith(phone, <<"2", "5", "4">>) THEN phone
  ELSE IF StartsWith(phone, <<"+", "2", "5", "4">>) THEN SubSeq(phone, 2, Len(phone))
  ELSE <<"2", "5", "4">> \o phone

\* the pin test of processPin: /^\d{4,6}$/
IsWellFormedPin(pin) ==
  /\ Len(pin) >= PinMinLen
  /\ Len(pin) <= PinMaxLen
  /\ \A i \in 1..Len(pin) : pin[i] \in Digits

Max(a, b) == IF a >= b THEN a ELSE b

calculateNewBalances(customer, amountNum) ==
  [newLoanBalance |-> customer.loanBalance - amountNum,
   newArrears |-> Max(0, customer.arrears - amountNum)]

\* schema validators run by create()/save()
ValidTransaction(doc) ==
  /\ doc.amount >= MinAmount
  /\ doc.loanBalanceBefore >= 0
  /\ doc.loanBalanceAfter >= 0
  /\ doc.arrearsBefore >= 0
  /\ doc.arrearsAfter >= 0
  /\ doc.pinAttempts <= MaxPinAttempts
  /\ doc.status \in {"PENDING", "SUCCESS", "FAILED", "CANCELLED"}

ValidCustomer(doc) ==
  /\ doc.loanBalance >= 0
  /\ doc.arrears >= 0
  /\ doc.totalRepayments >= 0

\* ------------------------------------------------------------------ inputs
PhoneOf(c) == <<"2", "5", "4", DigitOf[c]>>

RawPhones ==
  UNION {{PhoneOf(c), <<"0", DigitOf[c]>>, <<"+", "2", "5", "4", DigitOf[c]>>, <<DigitOf[c]>>} :
         c \in CustIds}
  \cup {<<>>, <<"0", "9">>}

Pins ==
  {<<>>, <<"1", "2">>, <<"1", "2", "3", "4">>, <<"1", "2", "3", "4", "5", "6">>,
   <<"1", "2", "3", "4", "5", "6", "7">>, <<"1", "2", "a", "4">>}

AmountInputs ==
  {Missing, NotANumber, Fraction} \cup {Number(n) : n \in -1..(MaxBalance + 1)}

Roles == {"admin", "supervisor"}

\* ------------------------------------------------------------------- state
VARIABLES
  customers,      \* Customer collection: id -> document
  transactions,   \* Transaction collection: transactionId -> document or NoTx
  requests,       \* bag of the handler invocations suspended at an await
  response,       \* the HTTP response just sent, NoResponse otherwise
  paid            \* transactionId -> number of processPin calls that committed its payment

vars == <<customers, transactions, requests, response, paid>>

TxDoc(t) == <<"transaction", t>>
CustDoc(c) == <<"customer", c>>

NewCustomer(c, loanBalance, arrears) ==
  [phoneNumber |-> PhoneOf(c),
   loanBalance |-> loanBalance,
   arrears |-> arrears,
   totalRepayments |-> 0,
   lastPaymentDate |-> Null,
   isActive |-> TRUE,
   updatedAt |-> Date]

Init ==
  /\ customers \in {[c \in CustIds |-> NewCustomer(c, MaxBalance, a[c])] :
                    a \in [CustIds -> 0..MaxBalance]}
  /\ transactions = [t \in TxCodes |-> NoTx]
  /\ requests = EmptyBag
  /\ response = NoResponse
  /\ paid = [t \in TxCodes |-> 0]

\* ------------------------------------------------------- store and sessions
\* mongoose save()/findByIdAndUpdate: $set of the given paths on the stored document
Set(doc, delta) == delta @@ doc

InFlight == BagToSet(requests)
Others(req) == requests (-) SetToBag({req})

\* a new request is accepted while fewer than NumReq are in flight and the last
\* response has been delivered
CanStart == response = NoResponse /\ BagCardinality(requests) < NumReq

\* req is a suspended handler whose awaited call may now return
CanResume(req) == response = NoResponse /\ req \in InFlight

\* processPin is the only handler whose session writes existing documents
WritesInSession(req) == req.op = "processPin"

LockedByOther(req, d) ==
  \E q \in BagToSet(Others(req)) : WritesInSession(q) /\ d \in q.locked

\* a store without conflict detection between sessions
NoWriteConflict(req, d) == FALSE

\* a store that detects only writes staged at the same time, not a snapshot
\* made stale by a commit
LockConflictOnly(req, d) == LockedByOther(req, d)

\* a staged write throws WriteConflict when the document was written after the
\* session's snapshot or is staged by another open session
WriteConflict(req, d) == d \in req.stale \/ LockedByOther(req, d)

\* a session whose customer save is not checked against its snapshot
WriteSetTransactionOnly(req) == {TxDoc(req.tx)}

\* the documents processPin saves in its session
WriteSet(req) == {TxDoc(req.tx), CustDoc(req.transaction.customerId)}

\* a committed write makes the documents newer than every other open snapshot
\* (only the documents a session will write can conflict, so only those are kept)
Stale(q, docs) ==
  IF WritesInSession(q) THEN [q EXCEPT !.stale = @ \cup (docs \cap WriteSet(q))] ELSE q

MarkStale(others, docs) ==
  LET StaleBy(q) == Stale(q, docs) IN BagOfAll(StaleBy, others)

\* the handler is suspended at its next await
Suspend(req, next) ==
  /\ requests' = Others(req) (+) SetToBag({next})
  /\ response' = NoResponse

\* the handler returns before any write: the response is sent
Reject(resp) ==
  /\ UNCHANGED requests
  /\ response' = resp

\* a suspended handler returns without a committed write
Finish(req, resp) ==
  /\ requests' = Others(req)
  /\ response' = resp

\* a suspended handler's write is committed and it returns
FinishWrite(req, docs, resp) ==
  /\ requests' = MarkStale(Others(req), docs)
  /\ response' = resp

\* the response reaches the client
Deliver ==
  /\ response # NoResponse
  /\ response' = NoResponse
  /\ UNCHANGED <<customers, transactions, requests, paid>>

\* ---------------------------------------------------------------- processPin
\* the submitted code as the handler sees it: absent, passing the test, or not
PinKind(pin) ==
  IF pin = <<>> THEN "empty"
  ELSE IF IsWellFormedPin(pin) THEN "wellformed"
  ELSE "malformed"

\* the branch processPin takes on a PENDING transaction
ProcessPinBranch(transaction, pinKind) ==
  IF transaction.pinAttempts >= MaxPinAttempts THEN "exhausted"
  ELSE IF pinKind = "wellformed" THEN "match"
  ELSE "mismatch"

Branch(req) == ProcessPinBranch(req.transaction, req.pinKind)

\* the update with the snapshot rolled forward on success
TransactionUpdateSettled(transaction, branch) ==
  LET attempts == transaction.pinAttempts + 1
  IN IF branch = "exhausted"
     THEN [status |-> "FAILED", errorMessage |-> "Maximum PIN attempts exceeded",
           updatedAt |-> Date]
     ELSE IF branch = "match"
     THEN [status |-> "SUCCESS", mpesaReceiptNumber |-> Receipt, processedAt |-> Date,
           updatedAt |-> Date, pinAttempts |-> attempts,
           loanBalanceBefore |-> transaction.loanBalanceAfter]
     ELSE IF attempts >= MaxPinAttempts
     THEN [pinAttempts |-> attempts, updatedAt |-> Date, status |-> "FAILED",
           errorMessage |-> "Maximum PIN attempts exceeded"]
     ELSE [pinAttempts |-> attempts, updatedAt |-> Date]

\* the update with the attempts ceiling tested one attempt too late
TransactionUpdateLate(transaction, branch) ==
  LET attempts == transaction.pinAttempts + 1
  IN IF branch = "exhausted"
     THEN [status |-> "FAILED", errorMessage |-> "Maximum PIN attempts exceeded",
           updatedAt |-> Date]
     ELSE IF branch = "match"
     THEN [status |-> "SUCCESS", mpesaReceiptNumber |-> Receipt, processedAt |-> Date,
           updatedAt |-> Date, pinAttempts |-> attempts]
     ELSE IF attempts > MaxPinAttempts
     THEN [pinAttempts |-> attempts, updatedAt |-> Date, status |-> "FAILED",
           errorMessage |-> "Maximum PIN attempts exceeded"]
     ELSE [pinAttempts |-> attempts, updatedAt |-> Date]

\* the update with a mismatch that never fails the transaction
TransactionUpdateNeverFails(transaction, branch) ==
  LET attempts == transaction.pinAttempts + 1
  IN IF branch = "exhausted"
     THEN [status |-> "FAILED", errorMessage |-> "Maximum PIN attempts exceeded",
           updatedAt |-> Date]
     ELSE IF branch = "match"
     THEN [status |-> "SUCCESS", mpesaReceiptNumber |-> Receipt, processedAt |-> Date,
           updatedAt |-> Date, pinAttempts |-> attempts]
     ELSE [pinAttempts |-> attempts, updatedAt |-> Date]

\* the paths processPin modifies on the transaction document before save()
TransactionUpdate(transaction, branch) ==
  LET attempts == transaction.pinAttempts + 1
  IN IF branch = "exhausted"
     THEN [status |-> "FAILED", errorMessage |-> "Maximum PIN attempts exceeded",
           updatedAt |-> Date]
     ELSE IF branch = "match"
     THEN [status |-> "SUCCESS", mpesaReceiptNumber |-> Receipt, processedAt |-> Date,
           updatedAt |-> Date, pinAttempts |-> attempts]
     ELSE IF attempts >= MaxPinAttempts
     THEN [pinAttempts |-> attempts, updatedAt |-> Date, status |-> "FAILED",
           errorMessage |-> "Maximum PIN attempts exceeded"]
     ELSE [pinAttempts |-> attempts, updatedAt |-> Date]

\* the update with totalRepayments assigned instead of accumulated
CustomerUpdateAssign(transaction, customer) ==
  [loanBalance |-> transaction.loanBalanceAfter,
   arrears |-> transaction.arrearsAfter,
   totalRepayments |-> transaction.amount,
   lastPaymentDate |-> Date,
   updatedAt |-> Date]

\* the paths processPin modifies on the customer document before save()
CustomerUpdate(transaction, customer) ==
  [loanBalance |-> transaction.loanBalanceAfter,
   arrears |-> transaction.arrearsAfter,
   totalRepayments |-> customer.totalRepayments + transaction.amount,
   lastPaymentDate |-> Date,
   updatedAt |-> Date]

\* the catch block of processPin; at is the await that threw
ProcessPinError(req) ==
  [op |-> "processPin", status |-> 500, message |-> "Server error processing payment",
   tx |-> req.tx, pinKind |-> req.pinKind, at |-> req.pc]

\* a status check that lets every transaction but a SUCCESS one through
IsProcessedSuccessOnly(transaction) == transaction.status = "SUCCESS"

\* if (transaction.status !== 'PENDING')
IsProcessed(transaction) == transaction.status # "PENDING"

\* validation, transaction lookup, status check, customer lookup (one snapshot);
\* t = 0 is a request without transactionId
ProcessPinBegin(t, pin) ==
  /\ CanStart
  /\ UNCHANGED <<customers, transactions, paid>>
  /\ IF t \notin TxCodes \/ pin = <<>>
     THEN Reject([op |-> "processPin", status |-> 400,
                  message |-> "Please provide transaction ID and PIN", tx |-> t,
                  pinKind |-> PinKind(pin)])
     ELSE IF transactions[t] = NoTx
     THEN Reject([op |-> "processPin", status |-> 404,
                  message |-> "Transaction not found", tx |-> t,
                  pinKind |-> PinKind(pin)])
     ELSE IF IsProcessed(transactions[t])
     THEN Reject([op |-> "processPin", status |-> 400,
                  message |-> "Transaction already processed",
                  current |-> transactions[t].status, tx |-> t,
                  pinKind |-> PinKind(pin)])
     ELSE /\ requests' = requests (+) SetToBag({
                [op |-> "processPin", pc |-> "saveTransaction", tx |-> t,
                 pinKind |-> PinKind(pin),
                 transaction |-> transactions[t],
                 customer |-> customers[transactions[t].customerId],
                 locked |-> {}, stale |-> {}]})
          /\ response' = NoResponse

\* transaction.save() without the session: the write is visible at once
SaveTransactionUnstaged(req) ==
  LET doc == Set(req.transaction, TransactionUpdate(req.transaction, Branch(req)))
  IN /\ CanResume(req)
     /\ req.op = "processPin"
     /\ req.pc = "saveTransaction"
     /\ UNCHANGED <<customers, paid>>
     /\ IF WriteConflict(req, TxDoc(req.tx)) \/ ~ValidTransaction(doc)
        THEN /\ UNCHANGED transactions
             /\ Finish(req, ProcessPinError(req))
        ELSE /\ transactions' = [transactions EXCEPT ![req.tx] = doc]
             /\ Suspend(req, [req EXCEPT
                   !.pc = IF Branch(req) = "match" THEN "saveCustomer" ELSE "commit"])

\* await transaction.save({ session })
ProcessPinSaveTransaction(req) ==
  LET doc == Set(req.transaction, TransactionUpdate(req.transaction, Branch(req)))
  IN /\ CanResume(req)
     /\ req.op = "processPin"
     /\ req.pc = "saveTransaction"
     /\ UNCHANGED <<customers, transactions, paid>>
     /\ IF WriteConflict(req, TxDoc(req.tx)) \/ ~ValidTransaction(doc)
        THEN Finish(req, ProcessPinError(req))
        ELSE Suspend(req, [req EXCEPT
                  !.locked = @ \cup {TxDoc(req.tx)},
                  !.pc = IF Branch(req) = "match" THEN "saveCustomer" ELSE "commit"])

\* await customer.save({ session })
ProcessPinSaveCustomer(req) ==
  LET c == req.transaction.customerId
      doc == Set(req.customer, CustomerUpdate(req.transaction, req.customer))
  IN /\ CanResume(req)
     /\ req.op = "processPin"
     /\ req.pc = "saveCustomer"
     /\ UNCHANGED <<customers, transactions, paid>>
     /\ IF WriteConflict(req, CustDoc(c)) \/ ~ValidCustomer(doc)
        THEN Finish(req, ProcessPinError(req))
        ELSE Suspend(req, [req EXCEPT !.locked = @ \cup {CustDoc(c)}, !.pc = "commit"])

\* the attempts left counted as if the call's own attempt were still to come
AttemptsLeftBeforeCall(pinAttempts) == Max(0, MaxPinAttempts - pinAttempts + 1)

\* attemptsLeft = 3 - transaction.pinAttempts, reported as Math.max(0, attemptsLeft)
AttemptsLeft(pinAttempts) == Max(0, MaxPinAttempts - pinAttempts)

\* the answers of processPin after its commit; the mismatch answer is computed
\* on the counter the call has just incremented
ProcessPinResponse(req) ==
  LET customer == Set(req.customer, CustomerUpdate(req.transaction, req.customer))
  IN IF Branch(req) = "exhausted"
     THEN [op |-> "processPin", status |-> 400,
           message |-> "Maximum PIN attempts exceeded. Transaction failed.",
           tx |-> req.tx, pinKind |-> req.pinKind]
     ELSE IF Branch(req) = "match"
     THEN [op |-> "processPin", status |-> 200, message |-> "Payment successful!",
           tx |-> req.tx, pinKind |-> req.pinKind, receipt |-> Receipt, amount |-> req.transaction.amount,
           newLoanBalance |-> customer.loanBalance, newArrears |-> customer.arrears]
     ELSE [op |-> "processPin", status |-> 400, message |-> "Invalid MPesa PIN",
           tx |-> req.tx, pinKind |-> req.pinKind,
           attemptsLeft |-> AttemptsLeft(req.transaction.pinAttempts + 1)]

\* await session.commitTransaction(): the staged writes become visible together
ProcessPinCommit(req) ==
  LET t == req.tx
      c == req.transaction.customerId
      match == Branch(req) = "match"
  IN /\ CanResume(req)
     /\ req.op = "processPin"
     /\ req.pc = "commit"
     /\ transactions' = [transactions EXCEPT
                           ![t] = Set(@, TransactionUpdate(req.transaction, Branch(req)))]
     /\ customers' = IF match
                     THEN [customers EXCEPT
                             ![c] = Set(@, CustomerUpdate(req.transaction, req.customer))]
                     ELSE customers
     /\ paid' = IF match THEN [paid EXCEPT ![t] = @ + 1] ELSE paid
     /\ FinishWrite(req, req.locked, ProcessPinResponse(req))

\* --------------------------------------------------------- cancelTransaction
\* a cancel that also clears the attempt counter
CancelUpdateReset ==
  [status |-> "CANCELLED", updatedAt |-> Date,
   errorMessage |-> "Cancelled by administrator", pinAttempts |-> 0]

\* transaction.status = 'CANCELLED'; transaction.errorMessage = ...
CancelUpdate ==
  [status |-> "CANCELLED", updatedAt |-> Date,
   errorMessage |-> "Cancelled by administrator"]

\* if (!transaction): the answer when the lookup finds nothing
CancelNotFound(t) ==
  [op |-> "cancelTransaction", status |-> 404,
   message |-> "Pending transaction not found or already processed", tx |-> t]

\* Transaction.findOne({ transactionId, status: 'PENDING' }), no session
CancelBegin(t) ==
  /\ CanStart
  /\ UNCHANGED <<customers, transactions, paid>>
  /\ IF transactions[t] = NoTx \/ transactions[t].status # "PENDING"
     THEN Reject(CancelNotFound(t))
     ELSE /\ requests' = requests (+) SetToBag({
                [op |-> "cancelTransaction", pc |-> "save", tx |-> t]})
          /\ response' = NoResponse

\* await transaction.save(): an update outside any session; it waits while an
\* open session holds a staged write on the document
CancelSave(req) ==
  LET t == req.tx
  IN /\ CanResume(req)
     /\ req.op = "cancelTransaction"
     /\ req.pc = "save"
     /\ ~LockedByOther(req, TxDoc(t))
     /\ transactions' = [transactions EXCEPT ![t] = Set(@, CancelUpdate)]
     /\ UNCHANGED <<customers, paid>>
     /\ FinishWrite(req, {TxDoc(t)},
                    [op |-> "cancelTransaction", status |-> 200,
                     message |-> "Transaction cancelled successfully", tx |-> t])

\* ----------------------------------------------------------- initiateSTKPush
\* a document created with one attempt already counted
NewTransactionCounted(req) ==
  LET balances == calculateNewBalances(req.customer, req.amount.value)
  IN [customerId |-> req.customerId,
      phoneNumber |-> req.phoneNumber,
      amount |-> req.amount.value,
      status |-> "PENDING",
      loanBalanceBefore |-> req.customer.loanBalance,
      loanBalanceAfter |-> balances.newLoanBalance,
      arrearsBefore |-> req.customer.arrears,
      arrearsAfter |-> balances.newArrears,
      pinAttempts |-> 1,
      mpesaReceiptNumber |-> NoReceipt,
      errorMessage |-> NoError,
      processedAt |-> Null,
      updatedAt |-> Date]

\* a document created with the arrears carried over unreduced
NewTransactionKeepArrears(req) ==
  LET balances == calculateNewBalances(req.customer, req.amount.value)
  IN [customerId |-> req.customerId,
      phoneNumber |-> req.phoneNumber,
      amount |-> req.amount.value,
      status |-> "PENDING",
      loanBalanceBefore |-> req.customer.loanBalance,
      loanBalanceAfter |-> balances.newLoanBalance,
      arrearsBefore |-> req.customer.arrears,
      arrearsAfter |-> req.customer.arrears,
      pinAttempts |-> 0,
      mpesaReceiptNumber |-> NoReceipt,
      errorMessage |-> NoError,
      processedAt |-> Null,
      updatedAt |-> Date]

\* the document passed to Transaction.create
NewTransaction(req) ==
  LET balances == calculateNewBalances(req.customer, req.amount.value)
  IN [customerId |-> req.customerId,
      phoneNumber |-> req.phoneNumber,
      amount |-> req.amount.value,
      status |-> "PENDING",
      loanBalanceBefore |-> req.customer.loanBalance,
      loanBalanceAfter |-> balances.newLoanBalance,
      arrearsBefore |-> req.customer.arrears,
      arrearsAfter |-> balances.newArrears,
      pinAttempts |-> 0,
      mpesaReceiptNumber |-> NoReceipt,
      errorMessage |-> NoError,
      processedAt |-> Null,
      updatedAt |-> Date]

InitiateReject(status, message) ==
  [op |-> "initiateSTKPush", status |-> status, message |-> message]

\* isNaN(amountNum) || amountNum <= 0
NotPositive(amount) ==
  amount = NotANumber \/ (amount.kind = "number" /\ amount.value <= 0)

\* a balance check that sets the customer's PENDING transactions against the
\* loanBalance
ExceedsUncommitted(amount, customer) ==
  LET pending == {t \in TxCodes : /\ transactions[t] # NoTx
                                  /\ transactions[t].phoneNumber = customer.phoneNumber
                                  /\ transactions[t].status = "PENDING"}
      held[txs \in SUBSET pending] ==
        IF txs = {} THEN 0
        ELSE LET t == CHOOSE x \in txs : TRUE
             IN transactions[t].amount + held[txs \ {t}]
      available == customer.loanBalance - held[pending]
  IN IF amount = Fraction THEN available <= 0
     ELSE amount.value > available

\* amountNum > customer.loanBalance (balances are whole numbers)
ExceedsBalance(amount, customer) ==
  IF amount = Fraction THEN customer.loanBalance <= 0
  ELSE amount.value > customer.loanBalance

\* TransactionSchema.amount: min 1
ValidAmount(amount) == amount.kind = "number" /\ amount.value >= MinAmount

\* the catch block of initiateSTKPush for an error other than a duplicate
\* transactionId; cause tells a refused document from a failed store call
InitiateError(cause) ==
  [op |-> "initiateSTKPush", status |-> 500,
   message |-> "Server error initiating STK Push", cause |-> cause]

\* a lookup by phone number alone
FindCustomerByPhone(formattedPhone) ==
  {c \in CustIds : customers[c].phoneNumber = formattedPhone}

\* Customer.findOne({ phoneNumber: formattedPhone, isActive: true })
FindActiveCustomer(formattedPhone) ==
  {c \in CustIds : customers[c].phoneNumber = formattedPhone /\ customers[c].isActive}

\* validation, phone formatting, customer lookup and balance check
InitiateBegin(phoneNumber, amount) ==
  LET formattedPhone == formatPhoneNumber(phoneNumber)
      active == FindActiveCustomer(formattedPhone)
      registered == \E c \in CustIds : customers[c].phoneNumber = formattedPhone
      c == CHOOSE x \in active : TRUE
  IN /\ CanStart
     /\ UNCHANGED <<customers, transactions, paid>>
     /\ IF phoneNumber = <<>> \/ amount \in {Missing, Number(0)}
        THEN Reject(InitiateReject(400, "Please provide phone number and amount"))
        ELSE IF NotPositive(amount)
        THEN Reject(InitiateReject(400, "Please provide a valid amount greater than 0"))
        ELSE IF active = {}
        THEN \* isValidKenyanPhone accepts every phone stored by createCustomer;
             \* for any other phone the call ends 400 (invalid) or 404 (unknown)
             \/ Reject(InitiateReject(404, "Customer not found"))
             \/ /\ ~registered
                /\ Reject(InitiateReject(400, "Please provide a valid Kenyan phone number"))
        ELSE IF ExceedsBalance(amount, customers[c])
        THEN Reject([op |-> "initiateSTKPush", status |-> 400,
                     message |-> "Payment amount exceeds loan balance",
                     amount |-> amount, loanBalance |-> customers[c].loanBalance])
        ELSE /\ requests' = requests (+) SetToBag({
                   [op |-> "initiateSTKPush", pc |-> "create", customerId |-> c,
                    customer |-> customers[c], phoneNumber |-> formattedPhone,
                    amount |-> amount]})
             /\ response' = NoResponse

\* a collection without the unique index on transactionId
CodeNeverTaken(code) == FALSE

\* transactionId: { unique: true }: the insert of a stored code fails with 11000
CodeTaken(code) == transactions[code] # NoTx

\* Transaction.create([...], { session }) and commitTransaction: the document is
\* validated, then inserted unless its generated code is already stored
InitiateCreate(req, code) ==
  LET doc == NewTransaction(req)
  IN /\ CanResume(req)
     /\ req.op = "initiateSTKPush"
     /\ req.pc = "create"
     /\ UNCHANGED <<customers, paid>>
     /\ IF ~ValidAmount(req.amount) \/ ~ValidTransaction(doc)
        THEN /\ UNCHANGED transactions
             /\ Finish(req, InitiateError("validation"))
        ELSE IF CodeTaken(code)
        THEN /\ UNCHANGED transactions
             /\ Finish(req, [op |-> "initiateSTKPush", status |-> 409,
                             message |-> "Transaction ID conflict. Please try again.",
                             tx |-> code])
        ELSE /\ transactions' = [transactions EXCEPT ![code] = doc]
             /\ Finish(req, [op |-> "initiateSTKPush", status |-> 200,
                             message |-> "STK Push initiated successfully", tx |-> code])

\* ------------------------------------------------------------ deleteCustomer
\* id = 0 is an unknown customer
DeleteBegin(id, role) ==
  /\ CanStart
  /\ UNCHANGED <<customers, transactions, paid>>
  /\ IF role # "admin"
     THEN Reject([op |-> "deleteCustomer", status |-> 403,
                  message |-> "Only administrators can deactivate customers"])
     ELSE IF id \notin CustIds
     THEN Reject([op |-> "deleteCustomer", status |-> 404,
                  message |-> "Customer not found", customerId |-> id])
     ELSE IF customers[id].loanBalance > 0 \/ customers[id].arrears > 0
     THEN Reject([op |-> "deleteCustomer", status |-> 400,
                  message |-> "Cannot deactivate customer with outstanding balance or arrears",
                  customerId |-> id])
     ELSE /\ requests' = requests (+) SetToBag({
                [op |-> "deleteCustomer", pc |-> "save", customerId |-> id]})
          /\ response' = NoResponse

\* a deactivation that also removes the customer's transactions
DeleteSaveCascade(req) ==
  LET c == req.customerId
  IN /\ CanResume(req)
     /\ req.op = "deleteCustomer"
     /\ req.pc = "save"
     /\ ~LockedByOther(req, CustDoc(c))
     /\ customers' = [customers EXCEPT ![c] = Set(@, [isActive |-> FALSE, updatedAt |-> Date])]
     /\ transactions' = [t \in TxCodes |->
                           IF transactions[t] # NoTx /\ transactions[t].customerId = c
                           THEN NoTx ELSE transactions[t]]
     /\ UNCHANGED paid
     /\ FinishWrite(req, {CustDoc(c)},
                    [op |-> "deleteCustomer", status |-> 200,
                     message |-> "Customer deactivated successfully", customerId |-> c])

\* customer.isActive = false; customer.updatedAt = new Date(); await customer.save()
DeleteSave(req) ==
  LET c == req.customerId
  IN /\ CanResume(req)
     /\ req.op = "deleteCustomer"
     /\ req.pc = "save"
     /\ ~LockedByOther(req, CustDoc(c))
     /\ customers' = [customers EXCEPT ![c] = Set(@, [isActive |-> FALSE, updatedAt |-> Date])]
     /\ UNCHANGED <<transactions, paid>>
     /\ FinishWrite(req, {CustDoc(c)},
                    [op |-> "deleteCustomer", status |-> 200,
                     message |-> "Customer deactivated successfully", customerId |-> c])

\* ------------------------------------------------------------ updateCustomer
BalanceFields == {"loanBalance", "arrears", "totalRepayments"}

\* req.body: no balance field or one of them with a number (negative, zero,
\* positive), and optionally isActive
UpdateValues == {-1, 0, MaxBalance}

UpdateBodies ==
  UNION {[fields -> UpdateValues] :
           fields \in {{}} \cup {{f} : f \in BalanceFields}}

ActiveInputs == {"absent", "true", "false"}

UpdateData(body, active) ==
  IF active = "absent" THEN body ELSE [isActive |-> active = "true"] @@ body

\* Customer.findOne, then Customer.findByIdAndUpdate(_id, { ...req.body },
\* { runValidators: true }); id = 0 is an unknown customer
UpdateCustomer(id, body, active) ==
  /\ CanStart
  /\ UNCHANGED <<transactions, paid>>
  /\ IF id \notin CustIds
     THEN /\ UNCHANGED customers
          /\ Reject([op |-> "updateCustomer", status |-> 404,
                     message |-> "Customer not found", customerId |-> id])
     ELSE IF \E f \in DOMAIN body : body[f] < 0
     THEN /\ UNCHANGED customers
          /\ Reject([op |-> "updateCustomer", status |-> 500,
                     message |-> "Server error updating customer", customerId |-> id])
     ELSE /\ \A q \in InFlight : ~(WritesInSession(q) /\ CustDoc(id) \in q.locked)
          /\ customers' = [customers EXCEPT ![id] = Set(@, UpdateData(body, active))]
          /\ requests' = MarkStale(requests, {CustDoc(id)})
          /\ response' = [op |-> "updateCustomer", status |-> 200,
                          message |-> "Customer updated successfully", customerId |-> id]

\* ------------------------------------------------------------ storage errors
ServerError(req) ==
  IF req.op = "processPin" THEN ProcessPinError(req)
  ELSE IF req.op = "initiateSTKPush" THEN InitiateError("storage")
  ELSE [op |-> req.op, status |-> 500, message |-> "Server error"]

\* the pending store call of a suspended handler throws: its catch block aborts
\* the session (nothing staged is kept) and answers 500
StorageError(req) ==
  /\ CanResume(req)
  /\ UNCHANGED <<customers, transactions, paid>>
  /\ Finish(req, ServerError(req))

\* ------------------------------------------------------------ specifications
ProcessPin ==
  \/ \E t \in TxCodes \cup {0}, pin \in Pins : ProcessPinBegin(t, pin)
  \/ \E req \in InFlight : ProcessPinSaveTransaction(req)
  \/ \E req \in InFlight : ProcessPinSaveCustomer(req)
  \/ \E req \in InFlight : ProcessPinCommit(req)

CancelTransaction ==
  \/ \E t \in TxCodes : CancelBegin(t)
  \/ \E req \in InFlight : CancelSave(req)

\* generateTransactionId returns a stored code or an unused one; unused codes
\* are interchangeable, so the lowest stands for them
GeneratedCodes ==
  {t \in TxCodes : transactions[t] # NoTx \/ \A u \in TxCodes : u < t => transactions[u] # NoTx}

InitiateSTKPush ==
  \/ \E phoneNumber \in RawPhones, amount \in AmountInputs :
       InitiateBegin(phoneNumber, amount)
  \/ \E req \in InFlight, code \in GeneratedCodes : InitiateCreate(req, code)

DeleteCustomer ==
  \/ \E id \in CustIds \cup {0}, role \in Roles : DeleteBegin(id, role)
  \/ \E req \in InFlight : DeleteSave(req)

\* the payment operations and customer deactivation
Next ==
  \/ InitiateSTKPush
  \/ ProcessPin
  \/ CancelTransaction
  \/ DeleteCustomer
  \/ \E req \in InFlight : StorageError(req)
  \/ Deliver

Spec == Init /\ [][Next]_vars

\* the same with customer edits
\* the payment handlers within the smaller scope explored together with the
\* customer editor
AdminScope ==
  /\ BagCardinality(requests') <= NumReqAdmin
  /\ Cardinality({t \in TxCodes : transactions'[t] # NoTx}) <= MaxTxAdmin

NextAdmin ==
  \/ Next /\ AdminScope
  \/ \E id \in CustIds \cup {0}, body \in UpdateBodies, active \in ActiveInputs :
       UpdateCustomer(id, body, active)

SpecAdmin == Init /\ [][NextAdmin]_vars

\* ---------------------------------------------------- formatPhoneNumber alone
\* the characters of the strings given to the formatter: the digits of the
\* country code, the characters it tests for, and another digit
PhoneChars == {"0", "2", "5", "4", "+", "7"}

PhoneStrings == UNION {[1..n -> PhoneChars] : n \in 0..MaxPhoneLen}

\* a phone string about to be formatted; nothing else is going on
InitFormat ==
  /\ customers = [c \in CustIds |-> NewCustomer(c, MaxBalance, 0)]
  /\ transactions = [t \in TxCodes |-> NoTx]
  /\ requests = EmptyBag
  /\ paid = [t \in TxCodes |-> 0]
  /\ response \in {[op |-> "formatPhoneNumber", phone |-> s, formatted |-> s, calls |-> 0] :
                     s \in PhoneStrings}

\* formattedPhone = formatPhoneNumber(...), applied to the last result
FormatPhoneNumber ==
  /\ response.calls < MaxFormatCalls
  /\ response' = [response EXCEPT !.formatted = formatPhoneNumber(@), !.calls = @ + 1]
  /\ UNCHANGED <<customers, transactions, requests, paid>>

NextFormat == FormatPhoneNumber

SpecFormat == InitFormat /\ [][NextFormat]_vars

\* ---------------------------------------------------------------- properties
Stored == {t \in TxCodes : transactions[t] # NoTx}
TxOf(c) == {t \in Stored : transactions[t].customerId = c}
Terminal == {"SUCCESS", "FAILED", "CANCELLED"}

RECURSIVE SumAmounts(_)
SumAmounts(txs) ==
  IF txs = {} THEN 0
  ELSE LET t == CHOOSE x \in txs : TRUE
       IN transactions[t].amount + SumAmounts(txs \ {t})

RECURSIVE SumPaid(_)
SumPaid(txs) ==
  IF txs = {} THEN 0
  ELSE LET t == CHOOSE x \in txs : TRUE
       IN paid[t] * transactions[t].amount + SumPaid(txs \ {t})

\* the step completes a processPin call on transaction t
ProcessPinDone(t) ==
  /\ response' # NoResponse
  /\ response'.op = "processPin"
  /\ response'.tx = t

C2_WritesCommitTogether ==
  \A c \in CustIds :
    LET receipted == {t \in TxOf(c) : transactions[t].mpesaReceiptNumber # NoReceipt}
    IN /\ customers[c].totalRepayments = SumAmounts(receipted)
       /\ (customers[c].lastPaymentDate = Date) <=> (receipted # {})
       /\ \A t \in receipted :
            \E u \in receipted :
              /\ customers[c].loanBalance = transactions[u].loanBalanceAfter
              /\ customers[c].arrears = transactions[u].arrearsAfter
       /\ \A t \in TxOf(c) :
            /\ transactions[t].status = "SUCCESS" =>
                 t \in receipted /\ transactions[t].processedAt = Date
            /\ transactions[t].status = "PENDING" =>
                 t \notin receipted /\ transactions[t].processedAt = Null

\* a well-formed confirm failed at the customer save, after its transaction
\* save: the transaction is still PENDING and the customer untouched
C2_Witness ==
  /\ response # NoResponse
  /\ response.op = "processPin"
  /\ response.status = 500
  /\ response.at = "saveCustomer"
  /\ transactions[response.tx].status = "PENDING"
  /\ customers[transactions[response.tx].customerId].totalRepayments = 0

\* C3: a transaction in SUCCESS, FAILED or CANCELLED keeps its status in every
\* later step, under any interleaving of confirm and cancel.
C3_TerminalAbsorbing ==
  [][\A t \in Stored :
       transactions[t].status \in Terminal =>
         transactions'[t].status = transactions[t].status]_vars

\* C4: a CANCELLED transaction never had its payment applied: it carries no
\* receipt and no confirm committed its amount to the customer.
C4_CancelledNeverPaid ==
  \A t \in Stored :
    transactions[t].status = "CANCELLED" =>
      /\ transactions[t].mpesaReceiptNumber = NoReceipt
      /\ paid[t] = 0

\* C5: in the step that makes a transaction SUCCESS the customer's loanBalance
\* drops by the amount from its value just before, and arrears becomes
\* max(0, arrears just before - amount).
C5_BalanceRoundTrip ==
  [][\A t \in Stored :
       (transactions[t].status # "SUCCESS" /\ transactions'[t].status = "SUCCESS") =>
         LET c == transactions[t].customerId
             amount == transactions[t].amount
         IN /\ customers'[c].loanBalance = customers[c].loanBalance - amount
            /\ customers'[c].arrears = Max(0, customers[c].arrears - amount)]_vars

\* C6: after any sequence of initiate, confirm and cancel every customer has
\* loanBalance >= 0 and arrears >= 0, and no step lowers a customer's
\* totalRepayments.
C6_BalancesNonNegative ==
  /\ [](\A c \in CustIds : customers[c].loanBalance >= 0 /\ customers[c].arrears >= 0)
  /\ [][\A c \in CustIds :
          customers'[c].totalRepayments >= customers[c].totalRepayments]_vars

\* a customer paid down to zero by a confirmed transaction while another of
\* their transactions was cancelled
C6_Witness ==
  \E c \in CustIds :
    /\ customers[c].loanBalance = 0
    /\ customers[c].totalRepayments > 0
    /\ \E t, u \in TxOf(c) :
         /\ transactions[t].status = "SUCCESS"
         /\ transactions[u].status = "CANCELLED"
         /\ paid[u] = 0

\* the step completes, without a server error, a confirm on the PENDING
\* transaction t whose code is of one of the given kinds
MismatchDone(t, kinds) ==
  /\ ProcessPinDone(t)
  /\ response'.pinKind \in kinds
  /\ response'.status # 500
  /\ transactions[t].status = "PENDING"

\* one more attempt is recorded on t, the customers are untouched, and t stays
\* PENDING unless the count has reached the ceiling
AttemptRecorded(t) ==
  /\ transactions'[t].pinAttempts = transactions[t].pinAttempts + 1
  /\ customers' = customers
  /\ IF transactions'[t].pinAttempts >= MaxPinAttempts
     THEN /\ transactions'[t].status = "FAILED"
          /\ transactions'[t].errorMessage = "Maximum PIN attempts exceeded"
     ELSE transactions'[t].status = "PENDING"

ArrivesProcessed(t, kinds) ==
  /\ ProcessPinDone(t)
  /\ requests' = requests
  /\ response'.pinKind \in kinds
  /\ transactions[t].status # "PENDING"

InvalidState(t) ==
  /\ response'.status = 400
  /\ response'.message = "Transaction already processed"
  /\ response'.current = transactions[t].status
  /\ UNCHANGED <<customers, transactions>>

\* no confirm proceeds past the status check on a transaction it read as
\* anything but PENDING
OnlyPendingProceeds ==
  \A req \in InFlight :
    req.op = "processPin" => req.transaction.status = "PENDING"

C9_OnlyConfirmChangesBalances ==
  [][\A c \in CustIds :
       (\E f \in BalanceFields : customers'[c][f] # customers[c][f]) =>
         /\ response'.op = "processPin"
         /\ response'.status = 200]_vars

\* the step completes a cancel whose save finds transaction t PENDING
CancelDone(t) ==
  /\ response' # NoResponse
  /\ response'.op = "cancelTransaction"
  /\ response'.status = 200
  /\ response'.tx = t
  /\ transactions[t].status = "PENDING"

\* C10: a cancel on a PENDING transaction sets status to CANCELLED and
\* errorMessage to "Cancelled by administrator" and, the updatedAt stamp of the
\* save apart, changes nothing else: pinAttempts, the snapshot fields and every
\* other field of the transaction, every other transaction and every customer
\* stay as they were.
C10_CancelFrame ==
  [][\A t \in Stored :
       CancelDone(t) =>
         /\ transactions' =
              [transactions EXCEPT
                 ![t] = [@ EXCEPT !.status = "CANCELLED",
                                  !.errorMessage = "Cancelled by administrator",
                                  !.updatedAt = Date]]
         /\ customers' = customers]_vars

\* a PENDING transaction with attempts on record has just been cancelled
C10_Witness ==
  /\ response # NoResponse
  /\ response.op = "cancelTransaction"
  /\ response.status = 200
  /\ transactions[response.tx].status = "CANCELLED"
  /\ transactions[response.tx].errorMessage = "Cancelled by administrator"
  /\ transactions[response.tx].pinAttempts \in 1..(MaxPinAttempts - 1)
  /\ transactions[response.tx].mpesaReceiptNumber = NoReceipt

\* the step answers a cancel that arrived for transaction code t and was
\* turned away at its lookup
CancelRejected(t) ==
  /\ response' # NoResponse
  /\ response'.op = "cancelTransaction"
  /\ response'.tx = t
  /\ requests' = requests

\* C11: a cancel on a stored transaction that is SUCCESS, FAILED or CANCELLED
\* is turned away, leaves transactions and customers unchanged, and its answer
\* differs from the not-found answer an unknown transaction code gets.
C11_CancelTerminalInvalidState ==
  [][\A t \in Stored :
       (transactions[t].status \in Terminal /\ CancelRejected(t)) =>
         /\ UNCHANGED <<customers, transactions>>
         /\ response' # CancelNotFound(t)]_vars

\* the step completes the initiate call req, which had passed its checks
InitiateDone(req) ==
  /\ req.op = "initiateSTKPush"
  /\ response' # NoResponse
  /\ response'.op = "initiateSTKPush"
  /\ requests' = Others(req)

\* the step answers an initiate call that is turned away by its checks
InitiateRejected ==
  /\ response' # NoResponse
  /\ response'.op = "initiateSTKPush"
  /\ requests' = requests

\* the step stores exactly the transaction t, with the given balances as its
\* before-snapshot, and changes nothing else
StoresOne(t, customer) ==
  /\ transactions[t] = NoTx
  /\ transactions'[t] # NoTx
  /\ transactions'[t].status = "PENDING"
  /\ transactions'[t].pinAttempts = 0
  /\ transactions'[t].loanBalanceBefore = customer.loanBalance
  /\ transactions'[t].arrearsBefore = customer.arrears
  /\ \A u \in TxCodes \ {t} : transactions'[u] = transactions[u]
  /\ customers' = customers

\* C12: every amount a with 0 < a <= B passes the checks of initiate for an
\* active customer with loanBalance B and the call then succeeds (a colliding
\* code or a failed store call apart), with loanBalanceAfter = B - a; the
\* balance error is given only for a > B; every failure of initiate stores no
\* transaction and changes no customer.
C12_InitiateAmountBounds ==
  /\ [][\A req \in InFlight :
          InitiateDone(req) =>
            \/ /\ response'.status = 200
               /\ StoresOne(response'.tx, req.customer)
               /\ transactions'[response'.tx].amount = req.amount.value
               /\ transactions'[response'.tx].loanBalanceAfter =
                    req.customer.loanBalance - req.amount.value
            \/ /\ response'.status = 409
               /\ UNCHANGED <<customers, transactions>>
            \/ /\ response'.status = 500
               /\ response'.cause = "storage"
               /\ UNCHANGED <<customers, transactions>>]_vars
  /\ [][InitiateRejected =>
          /\ UNCHANGED <<customers, transactions>>
          /\ response'.message = "Payment amount exceeds loan balance" =>
               ExceedsBalance(response'.amount, [loanBalance |-> response'.loanBalance])]_vars

\* C13 as stated: the step of a successful initiate adds exactly one
\* transaction, PENDING with pinAttempts = 0, whose loanBalanceBefore and
\* arrearsBefore equal the stored customer's loanBalance and arrears at that
\* step, and leaves customers and existing transactions unchanged.
C13_InitiateSnapshotsStoredCustomer ==
  [][\A req \in InFlight :
       (InitiateDone(req) /\ response'.status = 200) =>
         StoresOne(response'.tx, customers[req.customerId])]_vars

\* C13 amended: the step of a successful initiate adds exactly one transaction,
\* PENDING with pinAttempts = 0, whose loanBalanceBefore and arrearsBefore equal
\* the loanBalance and arrears the call read from the customer, and leaves
\* customers and existing transactions unchanged.
C13_InitiateSnapshotsReadCustomer ==
  [][\A req \in InFlight :
       (InitiateDone(req) /\ response'.status = 200) =>
         StoresOne(response'.tx, req.customer)]_vars

\* an initiate has just stored a transaction whose before-snapshot is older
\* than the customer: a payment was confirmed between its read and its insert
C13_Witness ==
  /\ response # NoResponse
  /\ response.op = "initiateSTKPush"
  /\ response.status = 200
  /\ transactions[response.tx].status = "PENDING"
  /\ transactions[response.tx].pinAttempts = 0
  /\ transactions[response.tx].loanBalanceBefore #
       customers[transactions[response.tx].customerId].loanBalance

\* C14: every stored transaction has 0 < amount <= loanBalanceBefore,
\* loanBalanceAfter = loanBalanceBefore - amount >= 0 and
\* arrearsAfter = max(0, arrearsBefore - amount).
C14_SnapshotArithmetic ==
  \A t \in Stored :
    LET tx == transactions[t]
    IN /\ 0 < tx.amount
       /\ tx.amount <= tx.loanBalanceBefore
       /\ tx.loanBalanceAfter = tx.loanBalanceBefore - tx.amount
       /\ tx.loanBalanceAfter >= 0
       /\ tx.arrearsAfter = Max(0, tx.arrearsBefore - tx.amount)

\* a stored transaction that pays the whole balance and more than the arrears
C14_Witness ==
  \E t \in Stored :
    /\ transactions[t].amount = transactions[t].loanBalanceBefore
    /\ transactions[t].loanBalanceAfter = 0
    /\ transactions[t].arrearsBefore > 0
    /\ transactions[t].arrearsBefore < transactions[t].amount
    /\ transactions[t].arrearsAfter = 0

\* the fields fixed at creation
Snapshot(tx) ==
  [amount |-> tx.amount,
   phoneNumber |-> tx.phoneNumber,
   loanBalanceBefore |-> tx.loanBalanceBefore,
   loanBalanceAfter |-> tx.loanBalanceAfter,
   arrearsBefore |-> tx.arrearsBefore,
   arrearsAfter |-> tx.arrearsAfter,
   customerId |-> tx.customerId]

\* C15: amount, phoneNumber, loanBalanceBefore, loanBalanceAfter, arrearsBefore,
\* arrearsAfter and the customer reference of a stored transaction are the same
\* after every step, whatever confirm or cancel does and however it ends.
C15_SnapshotImmutable ==
  [][\A t \in Stored :
       /\ transactions'[t] # NoTx
       /\ Snapshot(transactions'[t]) = Snapshot(transactions[t])]_vars

\* one transaction confirmed after a mismatch and another cancelled after a
\* mismatch
C15_Witness ==
  \E t, u \in Stored :
    /\ transactions[t].status = "SUCCESS"
    /\ transactions[t].pinAttempts >= 2
    /\ transactions[u].status = "CANCELLED"
    /\ transactions[u].pinAttempts >= 1

\* C16: a stored transaction carries a receipt number, and a processedAt stamp,
\* exactly when its status is SUCCESS.
C16_ReceiptIffSuccess ==
  \A t \in Stored :
    /\ (transactions[t].mpesaReceiptNumber # NoReceipt) <=>
         (transactions[t].status = "SUCCESS")
    /\ (transactions[t].processedAt # Null) <=>
         (transactions[t].status = "SUCCESS")

\* C17: a confirm with a non-empty code that arrives for a transaction with 3
\* attempts on record is answered with the attempts-exceeded error and changes
\* neither transactions nor customers; no confirm proceeds on such a transaction.
C17_AttemptsExceededRejected ==
  /\ [][\A t \in Stored :
          (/\ transactions[t].pinAttempts >= MaxPinAttempts
           /\ ProcessPinDone(t)
           /\ requests' = requests
           /\ response'.pinKind # "empty") =>
            /\ response'.message = "Maximum PIN attempts exceeded. Transaction failed."
            /\ UNCHANGED <<customers, transactions>>]_vars
  /\ [](\A req \in InFlight :
          req.op = "processPin" => req.transaction.pinAttempts < MaxPinAttempts)

\* the step completes a confirm on t that reports a recorded attempt
AttemptReported(t) ==
  /\ ProcessPinDone(t)
  /\ response'.message \in {"Invalid MPesa PIN", "Payment successful!"}

\* C18: under concurrent confirms on one transaction pinAttempts grows by
\* exactly one in each step that reports a mismatch (or a success) on it and in
\* no other step, so no increment is lost or duplicated; pinAttempts never
\* exceeds 3.
C18_AttemptsCountReports ==
  /\ [][\A t \in Stored :
          transactions'[t].pinAttempts =
            transactions[t].pinAttempts + (IF AttemptReported(t) THEN 1 ELSE 0)]_vars
  /\ [](\A t \in Stored : transactions[t].pinAttempts <= MaxPinAttempts)

\* one malformed confirm has been recorded while another malformed confirm
\* that read the transaction before it is still in flight
C18_Witness ==
  \E t \in Stored :
    /\ transactions[t].status = "PENDING"
    /\ transactions[t].pinAttempts = 1
    /\ \E req \in InFlight :
         /\ req.op = "processPin"
         /\ req.tx = t
         /\ req.pinKind = "malformed"
         /\ req.transaction.pinAttempts = 0

\* the transactions of customer c that the step makes SUCCESS
NewSuccess(c) ==
  {t \in TxOf(c) : transactions[t].status # "SUCCESS"
                   /\ transactions'[t].status = "SUCCESS"}

\* C19: when well-formed confirms on different transactions of one customer
\* run concurrently, every step raises the customer's totalRepayments by exactly
\* the amounts of the transactions it makes SUCCESS, and a confirm that ends
\* with a server error leaves its PENDING transaction as it was.
C19_NoLostRepayment ==
  /\ [][\A c \in CustIds :
          customers'[c].totalRepayments =
            customers[c].totalRepayments + SumAmounts(NewSuccess(c))]_vars
  /\ [][\A t \in Stored :
          (ProcessPinDone(t) /\ response'.status = 500) =>
            transactions'[t] = transactions[t]]_vars

\* a well-formed confirm on a PENDING transaction is in flight with a customer
\* snapshot made stale by the committed confirm of another transaction of the
\* same customer
C19_Witness ==
  \E req \in InFlight :
    /\ req.op = "processPin"
    /\ req.pinKind = "wellformed"
    /\ transactions[req.tx].status = "PENDING"
    /\ CustDoc(req.transaction.customerId) \in req.stale
    /\ \E t \in TxOf(req.transaction.customerId) \ {req.tx} :
         /\ transactions[t].status = "SUCCESS"
         /\ customers[req.transaction.customerId].totalRepayments =
              transactions[t].amount

\* C20: a successful initiate stores one transaction more, under a code that
\* was not stored, and leaves the stored ones as they were, also when its
\* inputs repeat an earlier call; an initiate that ends otherwise, a collision
\* of the generated code included, stores nothing.
C20_FreshCodePerInitiate ==
  [][\A req \in InFlight :
       InitiateDone(req) =>
         IF response'.status = 200
         THEN /\ transactions[response'.tx] = NoTx
              /\ transactions'[response'.tx] # NoTx
              /\ \A t \in Stored : transactions'[t] = transactions[t]
              /\ Cardinality({t \in TxCodes : transactions'[t] # NoTx}) =
                   Cardinality(Stored) + 1
         ELSE UNCHANGED transactions]_vars

\* two transactions stored from identical inputs, and a further initiate just
\* refused because its generated code was taken
C20_Witness ==
  /\ response # NoResponse
  /\ response.op = "initiateSTKPush"
  /\ response.status = 409
  /\ \E t, u \in Stored :
       /\ t # u
       /\ Snapshot(transactions[t]) = Snapshot(transactions[u])

\* the phone numbers initiate resolves to customer c
PhonesOf(c) == {p \in RawPhones : formatPhoneNumber(p) = PhoneOf(c)}

\* the call is turned away with the given answer; nothing is stored and no
\* handler is left that could store anything later
TurnedAway(status, message) ==
  /\ response' = InitiateReject(status, message)
  /\ UNCHANGED <<customers, transactions, requests>>

\* the answer initiate owes an inactive customer's phone number: the validation
\* errors are tested before the customer lookup
InactiveAnswer(amount) ==
  IF amount \in {Missing, Number(0)}
  THEN TurnedAway(400, "Please provide phone number and amount")
  ELSE IF NotPositive(amount)
  THEN TurnedAway(400, "Please provide a valid amount greater than 0")
  ELSE TurnedAway(404, "Customer not found")

\* C21 as stated: while a customer's isActive flag is false, every initiate that
\* arrives for one of that customer's phone numbers, whatever its amount, is
\* answered with the not-found error and creates no transaction.
C21_InactiveInitiateNotFound ==
  \A c \in CustIds :
    ~customers[c].isActive =>
      \A p \in PhonesOf(c), amount \in AmountInputs :
        ~ENABLED (InitiateBegin(p, amount) /\ ~TurnedAway(404, "Customer not found"))

\* C21 amended: while a customer's isActive flag is false, every initiate that
\* arrives for one of that customer's phone numbers creates no transaction: with
\* an amount that parses to a number above 0 it is answered with the not-found
\* error, and with a missing or invalid amount with the validation error, which
\* is tested first.
C21_InactiveInitiateRejected ==
  \A c \in CustIds :
    ~customers[c].isActive =>
      \A p \in PhonesOf(c), amount \in AmountInputs :
        ~ENABLED (InitiateBegin(p, amount) /\ ~InactiveAnswer(amount))

\* an initiate has just been answered not-found while the only customer with
\* that phone number, paid down to zero by a confirmed transaction, is inactive
C21_Witness ==
  /\ response = InitiateReject(404, "Customer not found")
  /\ \A c \in CustIds : ~customers[c].isActive /\ customers[c].loanBalance = 0
  /\ \E t \in Stored : transactions[t].status = "SUCCESS"

\* the step completes a confirm on t that reports a mismatch
MismatchReported(t) ==
  /\ ProcessPinDone(t)
  /\ response'.message = "Invalid MPesa PIN"

\* C22: the attemptsLeft of a mismatched confirm is max(0, 3 - pinAttempts) of
\* the counter as stored by that call, one above the counter before it, so the
\* mismatches on a transaction with 0, 1 and 2 attempts on record report 2, 1
\* and 0.
C22_AttemptsLeftAfterIncrement ==
  [][\A t \in Stored :
       MismatchReported(t) =>
         /\ transactions'[t].pinAttempts = transactions[t].pinAttempts + 1
         /\ response'.attemptsLeft = Max(0, 3 - transactions'[t].pinAttempts)
         /\ response'.attemptsLeft = <<2, 1, 0>>[transactions'[t].pinAttempts]]_vars

\* the second mismatch on a transaction has just reported one attempt left
C22_Witness ==
  /\ response # NoResponse
  /\ response.op = "processPin"
  /\ response.message = "Invalid MPesa PIN"
  /\ response.attemptsLeft = 1
  /\ transactions[response.tx].pinAttempts = 2
  /\ transactions[response.tx].status = "PENDING"

\* C23: initiate tests the amount against the customer's stored loanBalance B
\* alone: whatever PENDING transactions the customer has, a call with a whole
\* amount in 1..B passes the checks, and the transaction a successful call
\* stores has the loanBalance it read as loanBalanceBefore; a confirm with a
\* well-formed code that completes on a PENDING transaction makes it SUCCESS
\* whatever the customer's balance has become.  So two transactions with the
\* same loanBalanceBefore = B and amounts adding up to more than B can both be
\* created and both be confirmed (the witness).
C23_InitiateIgnoresPending ==
  /\ [](\A c \in CustIds :
          customers[c].isActive =>
            \A p \in PhonesOf(c), a \in 1..customers[c].loanBalance :
              ~ENABLED (InitiateBegin(p, Number(a)) /\ response' # NoResponse))
  /\ [][\A req \in InFlight :
          (InitiateDone(req) /\ response'.status = 200) =>
            /\ transactions'[response'.tx].status = "PENDING"
            /\ transactions'[response'.tx].loanBalanceBefore = req.customer.loanBalance
            /\ transactions'[response'.tx].amount <= req.customer.loanBalance]_vars
  /\ [][\A t \in Stored :
          (/\ ProcessPinDone(t)
           /\ response'.pinKind = "wellformed"
           /\ response'.status # 500
           /\ transactions[t].status = "PENDING") =>
            /\ response'.status = 200
            /\ transactions'[t].status = "SUCCESS"]_vars

\* two transactions of one customer, both created against the initial balance
\* with amounts that add up to more than it, have both been confirmed
C23_Witness ==
  \E c \in CustIds : \E t, u \in TxOf(c) :
    /\ t # u
    /\ transactions[t].loanBalanceBefore = MaxBalance
    /\ transactions[u].loanBalanceBefore = MaxBalance
    /\ transactions[t].amount + transactions[u].amount > MaxBalance
    /\ transactions[t].status = "SUCCESS"
    /\ transactions[u].status = "SUCCESS"
    /\ paid[t] = 1
    /\ paid[u] = 1

CountryCode == <<"2", "5", "4">>

\* C24: formatPhoneNumber is idempotent, its result always begins with 254, and
\* the strings 0X, +254X and 254X are all formatted to 254X: after one or more
\* applications to a string the result is the same, begins with 254, and is
\* 254X whenever the string was 0X, +254X or 254X.
C24_FormatIdempotent ==
  response.calls >= 1 =>
    LET s == response.phone
        result == response.formatted
    IN /\ result = formatPhoneNumber(s)
       /\ formatPhoneNumber(result) = result
       /\ StartsWith(result, CountryCode)
       /\ \A k \in {1, 3, 4} :
            LET X == SubSeq(s, k + 1, Len(s))
            IN s \in {<<"0">> \o X, <<"+">> \o CountryCode \o X, CountryCode \o X} =>
                 result = CountryCode \o X

\* a string +254X has been formatted twice
C24_Witness ==
  /\ response.calls = 2
  /\ StartsWith(response.phone, <<"+", "2", "5", "4">>)
  /\ Len(response.phone) = 5
  /\ response.formatted = Tail(response.phone)

\* the SUCCESS transactions of customer c
SuccessOf(c) == {t \in TxOf(c) : transactions[t].status = "SUCCESS"}

\* C25: in every state reached by initiate, confirm and cancel, what a
\* customer's loanBalance has fallen by since the start (from MaxBalance) equals
\* the sum of the amounts of the customer's SUCCESS transactions, which equals
\* what totalRepayments has grown by (from 0).
C25_MoneyConserved ==
  \A c \in CustIds :
    /\ MaxBalance - customers[c].loanBalance = SumAmounts(SuccessOf(c))
    /\ SumAmounts(SuccessOf(c)) = customers[c].totalRepayments

\* the attempt counts each status goes with
AttemptsOf(status) ==
  IF status = "FAILED" THEN {MaxPinAttempts}
  ELSE IF status = "SUCCESS" THEN 1..MaxPinAttempts
  ELSE 0..(MaxPinAttempts - 1)

\* C26: in every reachable state a PENDING or a CANCELLED transaction has
\* pinAttempts in 0..2, a FAILED one has 3 and a SUCCESS one has 1..3; so no
\* confirm finds a PENDING transaction with 3 attempts and the branch of
\* processPin for that case is never taken.
C26_StatusAttemptsCoupled ==
  /\ \A t \in Stored : transactions[t].pinAttempts \in AttemptsOf(transactions[t].status)
  /\ \A req \in InFlight : req.op = "processPin" => Branch(req) # "exhausted"
  /\ (response # NoResponse /\ response.op = "processPin") =>
       response.message # "Maximum PIN attempts exceeded. Transaction failed."

\* the answers of a confirm that was not evaluated
NotEvaluated ==
  {"Transaction already processed", "Please provide transaction ID and PIN",
   "Server error processing payment"}

\* C27: every confirm that commits on a transaction, with a well-formed or a
\* malformed code, is counted in pinAttempts, which never exceeds 3; a
\* transaction with 3 confirms committed is SUCCESS, FAILED or CANCELLED, and
\* every confirm that completes on it afterwards is turned away and changes
\* neither transactions nor customers.
C27_AtMostThreeConfirms ==
  /\ [](\A t \in Stored :
          /\ transactions[t].pinAttempts <= 3
          /\ transactions[t].pinAttempts = 3 => transactions[t].status \in Terminal)
  /\ [][\A t \in Stored :
          ProcessPinDone(t) =>
            IF transactions[t].pinAttempts < 3 /\ response'.message \notin NotEvaluated
            THEN transactions'[t].pinAttempts = transactions[t].pinAttempts + 1
            ELSE /\ response'.message \in NotEvaluated
                 /\ UNCHANGED <<customers, transactions, paid>>]_vars

\* after two mismatches and a match on a transaction, a further well-formed
\* confirm on it has just been turned away
C27_Witness ==
  /\ response # NoResponse
  /\ response.op = "processPin"
  /\ response.message = "Transaction already processed"
  /\ response.pinKind = "wellformed"
  /\ transactions[response.tx].pinAttempts = 3
  /\ transactions[response.tx].status = "SUCCESS"
  /\ paid[response.tx] = 1

\* C28: in every state reached by deleteCustomer, initiate, confirm and cancel
\* a customer with isActive = false has loanBalance = 0 and arrears = 0.
C28_InactiveHasNoBalance ==
  \A c \in CustIds :
    ~customers[c].isActive =>
      /\ customers[c].loanBalance = 0
      /\ customers[c].arrears = 0

\* the call is rejected: nothing is stored and no handler is left in flight
DeleteRejected ==
  /\ response'.status \in {400, 403}
  /\ UNCHANGED <<customers, transactions, requests>>

\* C29: deleteCustomer removes no customer record and no transaction: a call
\* that arrives for a customer with loanBalance > 0 or arrears > 0 is rejected
\* and changes nothing, and a call that completes changes nothing but, when it
\* succeeds, the customer's isActive, which becomes false (and the updatedAt
\* stamp of the save).
C29_DeleteOnlyDeactivates ==
  /\ [](\A c \in CustIds :
          (customers[c].loanBalance > 0 \/ customers[c].arrears > 0) =>
            \A role \in Roles : ~ENABLED (DeleteBegin(c, role) /\ ~DeleteRejected))
  /\ [][(response' # NoResponse /\ response'.op = "deleteCustomer") =>
          /\ transactions' = transactions
          /\ DOMAIN customers' = DOMAIN customers
          /\ IF response'.status = 200
             THEN customers' =
                    [customers EXCEPT
                       ![response'.customerId] = [@ EXCEPT !.isActive = FALSE,
                                                          !.updatedAt = Date]]
             ELSE customers' = customers]_vars

\* a customer paid down to zero has just been deactivated; the customer's
\* record, with its repayments, and its confirmed transaction are still stored
C29_Witness ==
  /\ response # NoResponse
  /\ response.op = "deleteCustomer"
  /\ response.status = 200
  /\ ~customers[response.customerId].isActive
  /\ customers[response.customerId].totalRepayments > 0
  /\ \E t \in TxOf(response.customerId) : transactions[t].status = "SUCCESS"

====
